---- MODULE Spec2Model ----
(***************************************************************************)
(* Vote-ingestion and scoring pipeline of navp:                            *)
(*   get_votes_both.py  fetch_bill_votes, fetch_and_store_batch,           *)
(*                      build_vote_matrix                                  *)
(*   get_votes_dev.py   compute_member_total_scores                        *)
(* Each component is a state machine of its own specification; the         *)
(* variables of the other components stay at their idle values.            *)
(***************************************************************************)
EXTENDS Integers, Sequences, FiniteSets, TLC

VARIABLES
    acts,       \* fetch_bill_votes: the accumulated action history
    chamber,    \* fetch_bill_votes: the chamber selector argument
    pc,         \* fetch_bill_votes: position in the function
    latest,     \* fetch_bill_votes: the selected roll-call actions
    err,        \* fetch_bill_votes: the exception raised, or NoError
    bill,       \* fetch_bill_votes: the (congress, bill_type, bill_number) arguments
    doc,        \* fetch_bill_votes: the recorded-vote entries of the House document
    votes,      \* fetch_bill_votes: the vote records appended so far
    store,      \* the rows of table bill_votes, in rowid order
    request,    \* build_vote_matrix: its bills and chamber arguments
    matrix,     \* build_vote_matrix: the DataFrame returned
    scoring_rules,  \* compute_member_total_scores: the per-bill rule tables
    default_score,  \* compute_member_total_scores: the default score
    scored,     \* compute_member_total_scores: the DataFrame returned
    bills,      \* fetch_and_store_batch: the bills argument
    next_bill,  \* fetch_and_store_batch: the position of the loop over bills
    bill_rows,  \* fetch_and_store_batch: the rows of the current bill still to write
    conn,       \* fetch_and_store_batch: the table as the connection sees it
    fetched,    \* fetch_and_store_batch: the calls of fetch_bill_votes and what they returned
    history,    \* the action history of the bill at the API
    off,        \* fetch_bill_votes: the offset of the next page
    requests,   \* fetch_bill_votes: the offsets of the pages requested so far
    senate_doc  \* fetch_bill_votes: the member elements of the Senate document

locVars == <<acts, chamber, pc, latest, err>>
houseVars == <<bill, doc, votes>>
storeVars == <<store, request, matrix>>
scoreVars == <<scoring_rules, default_score, scored>>
batchVars == <<bills, next_bill, bill_rows, conn, fetched>>
pageVars == <<history, off, requests>>
vars == <<acts, chamber, pc, latest, err, bill, doc, votes, store, request, matrix,
          scoring_rules, default_score, scored, bills, next_bill, bill_rows, conn,
          fetched,
          history, off, requests, senate_doc>>

\* Python's None / an absent XML element or attribute.
None == "None"
NoError == "no error"
NoBill == [congress |-> None, bill_type |-> None, bill_number |-> None]
NoRequest == [bills |-> <<>>, chamber |-> None]
NoMatrix == [columns |-> <<>>, rows |-> {}]

\* The variables of the scorer at rest.
ScoreIdle ==
    /\ scoring_rules = <<>>
    /\ default_score = 0
    /\ scored = NoMatrix

\* The variables of the store and the matrix builder at rest.
StoreIdle ==
    /\ store = <<>>
    /\ request = NoRequest
    /\ matrix = NoMatrix

\* The variables of the batch loop at rest.
BatchIdle ==
    /\ bills = <<>>
    /\ next_bill = 1
    /\ bill_rows = <<>>
    /\ conn = <<>>
    /\ fetched = <<>>

\* The variables of the paging loop at rest.
PageIdle ==
    /\ history = <<>>
    /\ off = 0
    /\ requests = <<>>

(***************************************************************************)
(* Bounds of the model.                                                    *)
(***************************************************************************)
MaxActs == 2
MaxEntries == 2
MaxRows == 2
MaxMembers == 4

(***************************************************************************)
(* 1. fetch_bill_votes: roll-call selection (get_votes_both.py 24-63)      *)
(***************************************************************************)
Chambers == {"House", "Senate"}
RollNumbers == {5, 12}

\* One entry of an action's recordedVotes list.
RecordedVote == [chamber : Chambers, rollNumber : RollNumbers]

\* An action is modelled by its recordedVotes list (absent key = empty list).
Action == {<<>>} \cup {<<d>> : d \in RecordedVote}
              \cup {<<d, e>> : d \in RecordedVote, e \in RecordedVote}

ActionLists == UNION {[1..n -> Action] : n \in 0..MaxActs}

ChamberSelectors == {"h", "H", "s", "senate", "both"}

\* str.lower() on the selectors of the model.
Lower(s) == CASE s = "H" -> "h"
              [] OTHER -> s

want_house(c) == Lower(c) \in {"h", "house", "both"}
want_senate(c) == Lower(c) \in {"s", "senate", "both"}

\* house_rolls / sen_rolls: the index of an action, once per descriptor of
\* chamber ch that it carries, in list order.
RECURSIVE RollsFrom(_, _, _)
RollsFrom(as, ch, i) ==
    IF i > Len(as) THEN <<>>
    ELSE [k \in 1..Cardinality({j \in 1..Len(as[i]) : as[i][j].chamber = ch}) |-> i]
         \o RollsFrom(as, ch, i + 1)

chamber_rolls(as, ch) == RollsFrom(as, ch, 1)

\* key=lambda a: a["recordedVotes"][0]["rollNumber"]
RollKey(as, i) == as[i][1].rollNumber

\* max(rolls, key=...) returning the last maximal item.
PickLast(as, rolls) ==
    LET p == CHOOSE p \in 1..Len(rolls) :
                 /\ \A q \in 1..Len(rolls) : RollKey(as, rolls[q]) <= RollKey(as, rolls[p])
                 /\ \A q \in (p + 1)..Len(rolls) : RollKey(as, rolls[q]) < RollKey(as, rolls[p])
    IN rolls[p]

\* Python's max(rolls, key=...): the first item whose key is maximal.
PyMax(as, rolls) ==
    LET p == CHOOSE p \in 1..Len(rolls) :
                 /\ \A q \in 1..Len(rolls) : RollKey(as, rolls[q]) <= RollKey(as, rolls[p])
                 /\ \A q \in 1..(p - 1) : RollKey(as, rolls[q]) < RollKey(as, rolls[p])
    IN rolls[p]

\* The list `latest`: each entry is the selected action (its index in acts),
\* tagged with the chamber whose branch appended it.
SelectLatest(as, c) ==
    LET hr == chamber_rolls(as, "House")
        sr == chamber_rolls(as, "Senate")
    IN (IF want_house(c) /\ hr # <<>>
            THEN <<[for |-> "House", act |-> PyMax(as, hr)]>> ELSE <<>>)
       \o (IF want_senate(c) /\ sr # <<>>
            THEN <<[for |-> "Senate", act |-> PyMax(as, sr)]>> ELSE <<>>)

ErrNoActions == "No actions returned for that bill."
ErrNoRollCall == "Requested chambers have no recorded votes for this bill."

\* Any selection succeeds, also on an empty history.
LocateNoCheck ==
    /\ pc = "actions"
    /\ latest' = SelectLatest(acts, chamber)
    /\ pc' = "located"
    /\ UNCHANGED <<acts, chamber, err, houseVars, storeVars, scoreVars,
                   batchVars, pageVars, senate_doc>>

\* Lines 45-63: the two error checks around the selection.
Locate ==
    /\ pc = "actions"
    /\ IF acts = <<>>
         THEN /\ err' = ErrNoActions
              /\ pc' = "failed"
              /\ latest' = <<>>
         ELSE IF SelectLatest(acts, chamber) = <<>>
         THEN /\ err' = ErrNoRollCall
              /\ pc' = "failed"
              /\ latest' = <<>>
         ELSE /\ latest' = SelectLatest(acts, chamber)
              /\ pc' = "located"
              /\ err' = err
    /\ UNCHANGED <<acts, chamber, houseVars, storeVars, scoreVars,
                   batchVars, pageVars, senate_doc>>

HouseIdle ==
    /\ bill = NoBill
    /\ doc = <<>>
    /\ votes = <<>>

InitLocate ==
    /\ acts \in ActionLists
    /\ chamber \in ChamberSelectors
    /\ pc = "actions"
    /\ latest = <<>>
    /\ err = NoError
    /\ HouseIdle
    /\ StoreIdle
    /\ ScoreIdle
    /\ BatchIdle
    /\ PageIdle
    /\ senate_doc = <<>>

NextLocate == Locate

SpecLocate == InitLocate /\ [][NextLocate]_vars

(***************************************************************************)
(* Claims about the roll-call selection.                                   *)
(***************************************************************************)
\* The chambers a selector asks for, as the documentation of chamber lists them.
Requested(c) ==
    CASE c \in {"h", "H"} -> {"House"}
      [] c \in {"s", "senate"} -> {"Senate"}
      [] c = "both" -> {"House", "Senate"}

\* The actions of the history that carry a descriptor for chamber ch.
Carriers(as, ch) == {i \in 1..Len(as) : \E j \in 1..Len(as[i]) : as[i][j].chamber = ch}

\* The roll numbers the history reports for chamber ch.
RollsOf(as, ch) ==
    UNION {{as[i][j].rollNumber : j \in {n \in 1..Len(as[i]) : as[i][n].chamber = ch}}
             : i \in 1..Len(as)}

SetMax(S) == CHOOSE m \in S : \A n \in S : n <= m
SetMin(S) == CHOOSE m \in S : \A n \in S : m <= n

\* The actions that report the maximum roll number of chamber ch.
MaxRollActions(as, ch) ==
    {i \in 1..Len(as) : \E j \in 1..Len(as[i]) :
        /\ as[i][j].chamber = ch
        /\ as[i][j].rollNumber = SetMax(RollsOf(as, ch))}

\* C1: for every non-empty history, the action selected for a requested
\* chamber carries a descriptor of that chamber whose roll number is the
\* maximum among all descriptors of that chamber, in any list order and also
\* when actions carry several descriptors.
C1_SelectsMaxRoll ==
    pc = "located" =>
        \A k \in 1..Len(latest) :
            latest[k].act \in MaxRollActions(acts, latest[k].for)

\* C9: the no-actions error is raised exactly on an empty history, the
\* no-roll-call error exactly on a non-empty history without a descriptor for
\* any requested chamber; otherwise there is exactly one selected action for
\* each requested chamber that has a recorded vote, and none for any other.
C9_LocateOutcome ==
    pc # "actions" =>
        /\ (pc = "failed") <=> (err # NoError)
        /\ (err = ErrNoActions) <=> (acts = <<>>)
        /\ (err = ErrNoRollCall) <=>
              (acts # <<>> /\ \A ch \in Requested(chamber) : Carriers(acts, ch) = {})
        /\ pc = "located" =>
              \A ch \in Chambers :
                  LET sel == {k \in 1..Len(latest) : latest[k].for = ch}
                  IN /\ Cardinality(sel) =
                          (IF ch \in Requested(chamber) /\ Carriers(acts, ch) # {}
                              THEN 1 ELSE 0)
                     /\ \A k \in sel : latest[k].act \in Carriers(acts, ch)

\* C9 witness: only the House was requested, both chambers have recorded
\* votes, and exactly one action (the House one) was selected.
C9_Witness ==
    /\ pc = "located"
    /\ chamber = "H"
    /\ Carriers(acts, "Senate") # {}
    /\ Len(latest) = 1
    /\ latest[1].for = "House"

\* C10 as stated: when two or more actions report the same maximum roll
\* number for a requested chamber, the selection succeeds and picks the one
\* that comes last in the list.
C10_TiePicksLast ==
    pc # "actions" =>
        \A ch \in Requested(chamber) :
            Cardinality(MaxRollActions(acts, ch)) >= 2 =>
                /\ pc = "located"
                /\ \E k \in 1..Len(latest) :
                      /\ latest[k].for = ch
                      /\ latest[k].act = SetMax(MaxRollActions(acts, ch))

\* The actions of chamber ch whose selection key (the roll number of their
\* first descriptor) is the maximum among the carriers of ch.
MaxKeyActions(as, ch) ==
    {i \in Carriers(as, ch) : \A n \in Carriers(as, ch) : RollKey(as, n) <= RollKey(as, i)}

\* C10 amended: when two or more actions of a requested chamber share the
\* maximum selection key, the selection succeeds and picks the one that comes
\* first in the list.
C10_TiePicksFirst ==
    pc # "actions" =>
        \A ch \in Requested(chamber) :
            Cardinality(MaxKeyActions(acts, ch)) >= 2 =>
                /\ pc = "located"
                /\ \E k \in 1..Len(latest) :
                      /\ latest[k].for = ch
                      /\ latest[k].act = SetMin(MaxKeyActions(acts, ch))

\* C10 witness: two single-descriptor House actions with the same roll number,
\* and the first of them selected.
C10_Witness ==
    /\ pc = "located"
    /\ Len(acts) = 2
    /\ acts[1] = acts[2]
    /\ Len(acts[1]) = 1
    /\ acts[1][1].chamber = "House"
    /\ Len(latest) = 1
    /\ latest[1].act = 1

(***************************************************************************)
(* 2. fetch_bill_votes: the House parsing branch (get_votes_both.py 67-88) *)
(***************************************************************************)
\* Element texts and what str.strip() makes of them.
Strip(t) == CASE t = " Smith " -> "Smith"
              [] t = " Nay " -> "Nay"
              [] OTHER -> t

\* rv.find("legislator"): found or not; its name-id attribute and its text
\* may each be absent (None).
Legislator ==
    {[found |-> FALSE, name_id |-> None, text |-> None]}
    \cup [found : {TRUE}, name_id : {"A000001", None}, text : {" Smith ", None}]

\* rv.find("vote"): found or not; its text is None for an empty element.
VoteElem ==
    {[found |-> FALSE, text |-> None]}
    \cup [found : {TRUE}, text : {"Yea", " Nay ", None}]

\* One <recorded-vote> entry of the document.
RecordedVoteEntry == [legislator : Legislator, vote : VoteElem]

HouseDocs == UNION {[1..n -> RecordedVoteEntry] : n \in 0..MaxEntries}

hr == <<"h", "r">>
\* The (congress, bill_type, bill_number) triples of the model.
Bills == {[congress |-> 118, bill_type |-> hr, bill_number |-> 2],
          [congress |-> 118, bill_type |-> hr, bill_number |-> 10],
          [congress |-> 117, bill_type |-> hr, bill_number |-> 2]}

\* The dict of lines 79-88 for one entry.
HouseRecord(b, chamber_tag, rollnum, e) ==
    [congress |-> b.congress, bill_type |-> b.bill_type, bill_number |-> b.bill_number,
     chamber |-> chamber_tag, roll_number |-> rollnum,
     member_id |-> e.legislator.name_id,
     name |-> IF e.legislator.text = None THEN "" ELSE Strip(e.legislator.text),
     state |-> "NY", party |-> "D",
     role |-> "Rep",
     vote_position |-> Strip(e.vote.text)]

\* The loop of lines 75-88 from entry i on: the records appended and the
\* exception that ended it (None.strip() raises AttributeError).
RECURSIVE HouseLoop(_, _, _, _, _, _)
HouseLoop(b, chamber_tag, rollnum, d, i, out) ==
    IF i > Len(d) THEN [votes |-> out, raised |-> NoError]
    ELSE IF ~d[i].legislator.found \/ ~d[i].vote.found
         THEN HouseLoop(b, chamber_tag, rollnum, d, i + 1, out)
    ELSE IF d[i].vote.text = None
         THEN [votes |-> out, raised |-> "AttributeError"]
    ELSE HouseLoop(b, chamber_tag, rollnum, d, i + 1,
                   Append(out, HouseRecord(b, chamber_tag, rollnum, d[i])))

ParseHouseVotes(b, chamber_tag, rollnum, d) ==
    HouseLoop(b, chamber_tag, rollnum, d, 1, <<>>)

\* Lines 67-88 for the selected House action rc = latest[1].
ParseHouse ==
    /\ pc = "parse"
    /\ LET rc == acts[latest[1].act]
           chamber_tag == rc[1].chamber
           roll_number == rc[1].rollNumber
           res == ParseHouseVotes(bill, chamber_tag, roll_number, doc)
       IN /\ chamber_tag = "House"
          /\ votes' = res.votes
          /\ err' = res.raised
          /\ pc' = IF res.raised = NoError THEN "parsed" ELSE "failed"
    /\ UNCHANGED <<acts, chamber, latest, bill, doc, storeVars, scoreVars,
                   batchVars, pageVars, senate_doc>>

\* The state of fetch_bill_votes when the House action has been selected and
\* its document fetched.
InitHouse ==
    /\ \E r \in RollNumbers : acts = <<<<[chamber |-> "House", rollNumber |-> r]>>>>
    /\ chamber = "h"
    /\ latest = <<[for |-> "House", act |-> 1]>>
    /\ pc = "parse"
    /\ err = NoError
    /\ bill \in Bills
    /\ doc \in HouseDocs
    /\ votes = <<>>
    /\ StoreIdle
    /\ ScoreIdle
    /\ BatchIdle
    /\ PageIdle
    /\ senate_doc = <<>>

NextHouse == ParseHouse

SpecHouse == InitHouse /\ [][NextHouse]_vars

\* The entries of a document that have both a legislator element and a vote
\* element with a value.
WellFormed(d) ==
    SelectSeq(d, LAMBDA e : e.legislator.found /\ e.vote.found /\ e.vote.text # None)

\* C8: for every House document the parse does not raise and yields exactly
\* one record, with role "Rep", for each entry that has both a legislator and
\* a vote value, in document order, and none for any other entry.
C8_HouseLenientSkip ==
    pc # "parse" =>
        /\ pc = "parsed"
        /\ err = NoError
        /\ Len(votes) = Len(WellFormed(doc))
        /\ \A k \in 1..Len(votes) :
              /\ votes[k].role = "Rep"
              /\ votes[k].member_id = WellFormed(doc)[k].legislator.name_id
              /\ votes[k].vote_position = Strip(WellFormed(doc)[k].vote.text)

(***************************************************************************)
(* 3. Strings: str(), str.upper() and the order of Python strings          *)
(***************************************************************************)
\* The characters of the model in code-point order.
Alphabet == <<".", "0", "1", "2", "3", "4", "5", "6", "7", "8", "9",
              "H", "R", "S", "a", "e", "h", "m", "n", "p", "r", "s", "t", "y">>

Ord(c) == CHOOSE i \in 1..Len(Alphabet) : Alphabet[i] = c

\* str(n) of a natural number: its decimal digits.
RECURSIVE Str(_)
Str(n) == IF n < 10 THEN <<Alphabet[n + 2]>>
          ELSE Str(n \div 10) \o <<Alphabet[(n % 10) + 2]>>

UpperChar(c) == CASE c = "h" -> "H"
                  [] c = "r" -> "R"
                  [] c = "s" -> "S"
                  [] OTHER -> c

\* str.upper()
Upper(t) == [i \in 1..Len(t) |-> UpperChar(t[i])]

\* a < b on Python strings: by code point, a proper prefix first.
RECURSIVE StrLess(_, _)
StrLess(a, b) ==
    IF b = <<>> THEN FALSE
    ELSE IF a = <<>> THEN TRUE
    ELSE IF Head(a) # Head(b) THEN Ord(Head(a)) < Ord(Head(b))
    ELSE StrLess(Tail(a), Tail(b))

\* sorted(S) for a set of strings.
RECURSIVE SortedStrings(_)
SortedStrings(S) ==
    IF S = {} THEN <<>>
    ELSE LET m == CHOOSE x \in S : \A y \in S \ {x} : StrLess(x, y)
         IN <<m>> \o SortedStrings(S \ {m})

(***************************************************************************)
(* 4. fetch_and_store_batch: the table bill_votes                          *)
(*    (get_votes_both.py 140-157)                                          *)
(***************************************************************************)
\* The recorded-vote entries behind the rows written: both elements present,
\* the vote with a value.
StoreEntries ==
    {e \in RecordedVoteEntry : /\ e.legislator.found
                               /\ e.legislator.text # None
                               /\ e.vote.found
                               /\ e.vote.text # None}

\* The records fetch_bill_votes returns to fetch_and_store_batch.  Line 117
\* reads the undefined name roll_number, so the Senate branch never returns a
\* record: the records are those of the House branch.
StoreRecords ==
    {HouseRecord(b, "House", r, e) : b \in Bills, r \in RollNumbers, e \in StoreEntries}

\* The row stored for a record: column bill_number is TEXT, so the integer is
\* stored as its decimal text.
ToRow(r) == [r EXCEPT !.bill_number = Str(r.bill_number)]

\* PRIMARY KEY (congress, bill_type, bill_number, chamber, member_id)
PrimaryKey(x) == <<x.congress, x.bill_type, x.bill_number, x.chamber, x.member_id>>

\* Two rows conflict on the primary key.  The key columns carry no NOT NULL
\* constraint and a NULL is distinct from every value, another NULL included;
\* member_id is the one key column that can be NULL.
Conflicts(x, y) == PrimaryKey(x) = PrimaryKey(y) /\ y.member_id # None

\* INSERT OR REPLACE: the conflicting row is deleted, the new row appended.
InsertOrReplace(tbl, r) ==
    Append(SelectSeq(tbl, LAMBDA x : ~Conflicts(x, ToRow(r))), ToRow(r))

\* Lines 150-156 for one record r of the rows of a bill.
WriteRow(r) ==
    /\ matrix = NoMatrix
    /\ Len(InsertOrReplace(store, r)) <= MaxRows
    /\ store' = InsertOrReplace(store, r)
    /\ UNCHANGED <<locVars, houseVars, request, matrix, scoreVars,
                   batchVars, pageVars, senate_doc>>

(***************************************************************************)
(* 5. build_vote_matrix (get_votes_both.py 164-205)                        *)
(***************************************************************************)
ColName == <<"n", "a", "m", "e">>
ColState == <<"s", "t", "a", "t", "e">>
ColParty == <<"p", "a", "r", "t", "y">>
MetaColumns == <<ColName, ColState, ColParty>>

\* The missing-value marker of a cell.
NaN == "NaN"

\* The requested bill lists: non-empty (run_votes.py requires one bill at
\* least), without repetition.
BillLists ==
    {<<b>> : b \in Bills} \cup {<<b, c>> : <<b, c>> \in {x \in Bills \X Bills : x[1] # x[2]}}

MatrixChambers == {"H", "senate", "both"}

\* Lines 175-176: the frame of the requested bills, bill_number as text.
wanted(bl) ==
    {[congress |-> bl[i].congress, bill_type |-> bl[i].bill_type,
      bill_number |-> Str(bl[i].bill_number)] : i \in 1..Len(bl)}

\* Line 177: the inner join on (congress, bill_type, bill_number).
Merged(tbl, bl) ==
    SelectSeq(tbl, LAMBDA x : [congress |-> x.congress, bill_type |-> x.bill_type,
                               bill_number |-> x.bill_number] \in wanted(bl))

\* Lines 180-184: the chamber filter.
ChamberFiltered(df, c) ==
    IF Lower(c) \in {"h", "house"} THEN SelectSeq(df, LAMBDA x : x.chamber = "House")
    ELSE IF Lower(c) \in {"s", "senate"} THEN SelectSeq(df, LAMBDA x : x.chamber = "Senate")
    ELSE df

\* Line 187: rows with a member id.
NotNa(df) == SelectSeq(df, LAMBDA x : x.member_id # None)

\* Line 190: the bill label of a row.
bill_id(x) == Upper(x.bill_type) \o <<".">> \o x.bill_number

\* The rows of the frame before the deduplication.
Retained(tbl, bl, c) == NotNa(ChamberFiltered(Merged(tbl, bl), c))

\* The (member_id, bill_id) pairs of a frame.
Pairs(df) == {<<df[i].member_id, bill_id(df[i])>> : i \in 1..Len(df)}

RowsOfPair(df, p) == {i \in 1..Len(df) : <<df[i].member_id, bill_id(df[i])>> = p}

\* Lines 193-194 keeping the first row of each pair after the sort: a row of
\* the lowest roll number.
KeepFirstCandidates(df, p) ==
    {i \in RowsOfPair(df, p) :
        \A j \in RowsOfPair(df, p) : df[i].roll_number <= df[j].roll_number}

\* Lines 193-194: sort_values("roll_number") and drop_duplicates(keep="last")
\* keep, of each pair, a row of the highest roll number.  The sort is not
\* stable, so among rows of equal roll number any may come last.
KeepLastCandidates(df, p) ==
    {i \in RowsOfPair(df, p) :
        \A j \in RowsOfPair(df, p) : df[j].roll_number <= df[i].roll_number}

\* The outcomes of the sort: for each pair, the row that is kept.
Picks(df) == {f \in [Pairs(df) -> 1..Len(df)] : \A p \in Pairs(df) : f[p] \in KeepLastCandidates(df, p)}

Deduplicated(df, pick) == {df[pick[p]] : p \in Pairs(df)}

\* Lines 196-198: the distinct (member_id, name, state, party) rows.
meta(kept) ==
    {[member_id |-> x.member_id, name |-> x.name, state |-> x.state, party |-> x.party]
        : x \in kept}

\* The bill columns in the order of the requested bill list.
RECURSIVE InRequestOrder(_, _)
InRequestOrder(ids, S) ==
    IF ids = <<>> THEN <<>>
    ELSE (IF Head(ids) \in S THEN <<Head(ids)>> ELSE <<>>)
         \o InRequestOrder(Tail(ids), S \ {Head(ids)})

RequestedIds(bl) == [i \in 1..Len(bl) |-> Upper(bl[i].bill_type) \o <<".">> \o Str(bl[i].bill_number)]

PivotColumnsByRequest(kept, bl) ==
    InRequestOrder(RequestedIds(bl), {bill_id(x) : x \in kept})

\* One column for every requested bill, joined or not.
PivotColumnsAllRequested(kept, bl) ==
    SortedStrings({RequestedIds(bl)[i] : i \in 1..Len(bl)})

\* Lines 200-203: the columns of the pivot table are the bill ids of the
\* frame, sorted.
PivotColumns(kept, bl) == SortedStrings({bill_id(x) : x \in kept})

\* Lines 200-203: the cell of member m and column b: the vote position of
\* the row of that pair, NaN when there is none.
PivotCell(kept, m, b) ==
    IF \E x \in kept : x.member_id = m /\ bill_id(x) = b
        THEN (CHOOSE x \in kept : x.member_id = m /\ bill_id(x) = b).vote_position
        ELSE NaN

\* Line 205: meta.join(pivot).
Joined(kept, bl) ==
    [columns |-> MetaColumns \o PivotColumns(kept, bl),
     rows |-> {[member_id |-> mt.member_id, name |-> mt.name, state |-> mt.state,
                party |-> mt.party,
                cells |-> [b \in {PivotColumns(kept, bl)[i] : i \in 1..Len(PivotColumns(kept, bl))}
                              |-> PivotCell(kept, mt.member_id, b)]]
                  : mt \in meta(kept)}]

BuildMatrix(bl, c) ==
    /\ matrix = NoMatrix
    /\ \E pick \in Picks(Retained(store, bl, c)) :
          matrix' = Joined(Deduplicated(Retained(store, bl, c), pick), bl)
    /\ request' = [bills |-> bl, chamber |-> c]
    /\ UNCHANGED <<locVars, houseVars, store, scoreVars, batchVars, pageVars, senate_doc>>

InitStore ==
    /\ acts = <<>>
    /\ chamber = "both"
    /\ pc = "store"
    /\ latest = <<>>
    /\ err = NoError
    /\ HouseIdle
    /\ StoreIdle
    /\ ScoreIdle
    /\ BatchIdle
    /\ PageIdle
    /\ senate_doc = <<>>

NextStore ==
    \/ \E r \in StoreRecords : WriteRow(r)
    \/ \E bl \in BillLists, c \in MatrixChambers : BuildMatrix(bl, c)

SpecStore == InitStore /\ [][NextStore]_vars

(***************************************************************************)
(* Claims about the store.                                                 *)
(***************************************************************************)
RowsWithKey(tbl, k) == {i \in 1..Len(tbl) : PrimaryKey(tbl[i]) = k}
RowSet(tbl) == {tbl[i] : i \in 1..Len(tbl)}

\* C2: every record write leaves exactly one row with the key of the record
\* written, that row carries the record's values, the rows of the other keys
\* stay, and writing a record that is already stored changes neither the
\* number nor the contents of the rows.
C2_ReplaceOnConflict ==
    [][\A r \in StoreRecords :
          WriteRow(r) =>
              /\ Cardinality(RowsWithKey(store', PrimaryKey(ToRow(r)))) = 1
              /\ \A i \in RowsWithKey(store', PrimaryKey(ToRow(r))) : store'[i] = ToRow(r)
              /\ \A x \in RowSet(store) :
                    PrimaryKey(x) # PrimaryKey(ToRow(r)) => x \in RowSet(store')
              /\ ToRow(r) \in RowSet(store) =>
                    /\ Len(store') = Len(store)
                    /\ RowSet(store') = RowSet(store)]_vars

(***************************************************************************)
(* Claims about the matrix.                                                *)
(***************************************************************************)
Built == matrix # NoMatrix

\* The bill columns of the matrix: those after name, state, party.
BillColumns == SubSeq(matrix.columns, Len(MetaColumns) + 1, Len(matrix.columns))
BillColumnSet == {BillColumns[i] : i \in 1..Len(BillColumns)}

\* The Bill Id of a requested bill: uppercase(bill type) + "." + bill number.
BillIdOf(b) == Upper(b.bill_type) \o <<".">> \o Str(b.bill_number)

\* The stored rows of requested bill b that the request retains: of a
\* requested chamber and with a member id.
RetainedRowsOf(b) ==
    {x \in RowSet(store) : /\ x.congress = b.congress
                           /\ x.bill_type = b.bill_type
                           /\ x.bill_number = Str(b.bill_number)
                           /\ x.chamber \in Requested(request.chamber)
                           /\ x.member_id # None}

RequestedBills == {request.bills[i] : i \in 1..Len(request.bills)}

\* The retained rows of member m under Bill Id b.
RetainedOfCell(m, b) ==
    UNION {{x \in RetainedRowsOf(rb) : x.member_id = m} :
              rb \in {q \in RequestedBills : BillIdOf(q) = b}}

\* C5: when several retained records share a member id and a Bill Id, the
\* cell of that member and bill holds the vote position of a record of the
\* highest roll number among them.
C5_CellOfHighestRoll ==
    Built =>
        \A row \in matrix.rows : \A b \in BillColumnSet :
            Cardinality(RetainedOfCell(row.member_id, b)) >= 2 =>
                \E x \in RetainedOfCell(row.member_id, b) :
                    /\ \A y \in RetainedOfCell(row.member_id, b) :
                          y.roll_number <= x.roll_number
                    /\ row.cells[b] = x.vote_position

\* C5 witness: two retained records of one member and one Bill Id (of two
\* congresses) with different roll numbers and vote positions.
C5_Witness ==
    /\ Built
    /\ \E row \in matrix.rows : \E b \in BillColumnSet :
          \E x, y \in RetainedOfCell(row.member_id, b) :
              /\ x.roll_number < y.roll_number
              /\ x.vote_position # y.vote_position
              /\ row.cells[b] = y.vote_position

\* C6 as stated: the matrix has a column for every requested Bill Id, joined
\* or not, and no column for a bill that was not requested.
C6_ColumnPerRequestedBill ==
    Built => BillColumnSet = {BillIdOf(b) : b \in RequestedBills}

\* C6 amended: the matrix has a column for exactly the requested Bill Ids
\* that have a retained record; a requested bill without one has no column,
\* and no bill that was not requested has a column.
C6_ColumnPerJoinedBill ==
    Built => BillColumnSet = {BillIdOf(b) : b \in {q \in RequestedBills : RetainedRowsOf(q) # {}}}

\* C6 witness: two bills requested, records stored for one of them and for a
\* bill that was not requested; the matrix has the one bill column.
C6_Witness ==
    /\ Built
    /\ Len(request.bills) = 2
    /\ Cardinality({BillIdOf(b) : b \in RequestedBills}) = 2
    /\ \E b \in RequestedBills : RetainedRowsOf(b) = {}
    /\ \E x \in RowSet(store) :
          [congress |-> x.congress, bill_type |-> x.bill_type,
           bill_number |-> x.bill_number] \notin wanted(request.bills)
    /\ Len(BillColumns) = 1

\* C7 as stated: the columns are name, state, party, then the bill columns
\* in the order of the requested bill list.
C7_ColumnsInRequestOrder ==
    Built =>
        matrix.columns =
            MetaColumns \o InRequestOrder(RequestedIds(request.bills), BillColumnSet)

\* C7 amended: the columns are name, state, party, then the bill columns in
\* ascending order of their Bill Id strings.
C7_ColumnsSorted ==
    Built =>
        /\ SubSeq(matrix.columns, 1, Len(MetaColumns)) = MetaColumns
        /\ \A i, j \in 1..Len(BillColumns) : i < j => StrLess(BillColumns[i], BillColumns[j])

\* C7 witness: bills 2 and 10 requested in that order, and the columns are
\* HR.10 before HR.2.
C7_Witness ==
    /\ Built
    /\ Len(request.bills) = 2
    /\ request.bills[1].bill_number = 2
    /\ request.bills[2].bill_number = 10
    /\ Len(BillColumns) = 2
    /\ BillColumns[1] = BillIdOf(request.bills[2])
    /\ BillColumns[2] = BillIdOf(request.bills[1])

(***************************************************************************)
(* 5a. The store and the matrix over records of one member whose           *)
(*     legislator element has a text on one roll call and none on another  *)
(***************************************************************************)
\* The recorded-vote entries with a name-id; the legislator text may be
\* absent, and line 83 then stores the name "".
MetaEntries ==
    {e \in RecordedVoteEntry : /\ e.legislator.found
                               /\ e.legislator.name_id # None
                               /\ e.vote.found
                               /\ e.vote.text # None}

MetaRecords ==
    {HouseRecord(b, "House", r, e) : b \in Bills, r \in RollNumbers, e \in MetaEntries}

NextMeta ==
    \/ \E r \in MetaRecords : WriteRow(r)
    \/ \E bl \in BillLists, c \in MatrixChambers : BuildMatrix(bl, c)

SpecMeta == InitStore /\ [][NextMeta]_vars

\* The member ids of the retained records of the request.
RetainedMembers == {x.member_id : x \in UNION {RetainedRowsOf(b) : b \in RequestedBills}}

\* C11: the matrix has exactly one row for every member id among the
\* retained records and no other row, also when the records of a member
\* carry different names on different bills.
C11_OneRowPerMember ==
    Built =>
        /\ {row.member_id : row \in matrix.rows} = RetainedMembers
        /\ \A m \in RetainedMembers :
              Cardinality({row \in matrix.rows : row.member_id = m}) = 1

(***************************************************************************)
(* 6. compute_member_total_scores (get_votes_dev.py 205-279)               *)
(***************************************************************************)
ColTotalScore == <<"t", "o", "t", "a", "l", "_", "s", "c", "o", "r", "e">>
ColRank == <<"r", "a", "n", "k">>
ColPercent == <<"p", "e", "r", "c", "e", "n", "t">>

MemberIds == <<"A000001", "B000002", "C000003", "D000004", "E000005", "F000006">>

\* The bill columns of the matrices scored: HR.10 and HR.2, as
\* build_vote_matrix orders them.
ScoredBills == <<Upper(hr) \o <<".">> \o Str(10), Upper(hr) \o <<".">> \o Str(2)>>
ScoredBillSet == {ScoredBills[i] : i \in 1..Len(ScoredBills)}

\* The vote cells of one row: a vote position in one bill column at least.
CellRows == {c \in [ScoredBillSet -> {"Yea", "Nay", NaN}] : \E b \in ScoredBillSet : c[b] # NaN}

\* The cells of n rows; pivot_table leaves no column without a vote position.
VoteCells(n) ==
    {f \in [1..n -> CellRows] : \A b \in ScoredBillSet : \E i \in 1..n : f[i][b] # NaN}

\* A matrix as build_vote_matrix returns it for these bills: row i is that
\* of member i with the cells f[i].
VoteMatrix(f) ==
    [columns |-> MetaColumns \o ScoredBills,
     rows |-> {[member_id |-> MemberIds[i], name |-> "Smith", state |-> "NY",
                party |-> "D", cells |-> f[i]] : i \in DOMAIN f}]

\* The rule tables passed: with no entry for HR.10, and with an entry for
\* HR.10 that maps "Yea" only.
RuleTables ==
    {(ScoredBills[2] :> ("Yea" :> -1 @@ "Nay" :> 1)),
     (ScoredBills[2] :> ("Yea" :> -1 @@ "Nay" :> 1)) @@ (ScoredBills[1] :> ("Yea" :> 2))}

DefaultScores == {0, 1}

\* The value of a row in a column of the matrix.
CellValue(row, col) ==
    IF col = ColName THEN row.name
    ELSE IF col = ColState THEN row.state
    ELSE IF col = ColParty THEN row.party
    ELSE row.cells[col]

\* Lines 238-240: scoring_rules.get(col, {}), .map(rule), .fillna(default).
CellScore(rules, dflt, col, val) ==
    IF col \in DOMAIN rules /\ val \in DOMAIN rules[col] THEN rules[col][val] ELSE dflt

\* Lines 237-243: the loop runs over every column of the matrix, the
\* metadata columns included, and the scores are summed row-wise.
RECURSIVE SumScores(_, _, _, _, _)
SumScores(rules, dflt, cols, row, i) ==
    IF i > Len(cols) THEN 0
    ELSE CellScore(rules, dflt, cols[i], CellValue(row, cols[i]))
         + SumScores(rules, dflt, cols, row, i + 1)

TotalScore(rules, dflt, m, row) == SumScores(rules, dflt, m.columns, row, 1)

\* rank(method="average") in ascending order, then astype(int).
RankAscending(rows, t) ==
    LET below == Cardinality({x \in rows : x.total_score < t})
        equal == Cardinality({x \in rows : x.total_score = t})
    IN (2 * below + equal + 1) \div 2

\* Lines 247-252: rank(ascending=False, method="average") of total t among
\* the rows is the mean of the positions above + 1 .. above + equal, where
\* above counts the rows of a greater total; astype(int) drops its fraction.
Rank(rows, t) ==
    LET above == Cardinality({x \in rows : x.total_score > t})
        equal == Cardinality({x \in rows : x.total_score = t})
    IN (2 * above + equal + 1) \div 2

\* round() of the quotient a / b to an integer, a half to the even one.
RoundDiv(a, b) ==
    LET q == a \div b
        r == a % b
    IN IF 2 * r < b THEN q
       ELSE IF 2 * r > b THEN q + 1
       ELSE IF q % 2 = 0 THEN q ELSE q + 1

\* Lines 253-254: rank / rows * 100 rounded to one decimal, in tenths.
PercentTenths(rank, n) == RoundDiv(rank * 1000, n)

\* Line 244 assigns the column total_score in the caller's frame.
WithTotalScore(m, rules, dflt) ==
    [columns |-> Append(m.columns, ColTotalScore),
     rows |-> {[member_id |-> x.member_id, name |-> x.name, state |-> x.state,
                party |-> x.party, cells |-> x.cells,
                total_score |-> TotalScore(rules, dflt, m, x)] : x \in m.rows}]

\* Lines 247-275 on the frame with its totals: rank and percent are added and
\* the three columns moved after party.  The order of the rows (the sort of
\* lines 245 and 277) is not part of the model.
Ranked(t) ==
    [columns |-> MetaColumns \o <<ColTotalScore, ColRank, ColPercent>>
                   \o SubSeq(t.columns, Len(MetaColumns) + 1, Len(t.columns) - 1),
     rows |-> {[member_id |-> x.member_id, name |-> x.name,
                state |-> x.state, party |-> x.party,
                total_score |-> x.total_score,
                rank |-> Rank(t.rows, x.total_score),
                percent |-> PercentTenths(Rank(t.rows, x.total_score), Cardinality(t.rows)),
                cells |-> x.cells] : x \in t.rows}]

Score(rules, dflt) ==
    /\ scored = NoMatrix
    /\ scoring_rules' = rules
    /\ default_score' = dflt
    /\ matrix' = WithTotalScore(matrix, rules, dflt)
    /\ scored' = Ranked(matrix')
    /\ UNCHANGED <<locVars, houseVars, store, request, batchVars, pageVars, senate_doc>>

InitScore ==
    /\ acts = <<>>
    /\ chamber = "both"
    /\ pc = "score"
    /\ latest = <<>>
    /\ err = NoError
    /\ HouseIdle
    /\ store = <<>>
    /\ request = NoRequest
    /\ \E n \in 1..MaxMembers : \E f \in VoteCells(n) : matrix = VoteMatrix(f)
    /\ ScoreIdle
    /\ BatchIdle
    /\ PageIdle
    /\ senate_doc = <<>>

NextScore == \E rules \in RuleTables, dflt \in DefaultScores : Score(rules, dflt)

SpecScore == InitScore /\ [][NextScore]_vars

(***************************************************************************)
(* Claims about the scorer.                                                *)
(***************************************************************************)
IsScored == scored # NoMatrix

\* The score of one vote cell under the rule table of its bill.
RuleScore(b, val) ==
    IF b \in DOMAIN scoring_rules /\ val \in DOMAIN scoring_rules[b]
        THEN scoring_rules[b][val] ELSE default_score

RECURSIVE SumOver(_, _)
SumOver(row, S) ==
    IF S = {} THEN 0
    ELSE LET b == CHOOSE b \in S : TRUE
         IN RuleScore(b, row.cells[b]) + SumOver(row, S \ {b})

\* C3: the total of every member is the sum over the bill columns only of
\* the rule score of the cell, or of default_score for an absent cell, an
\* unmapped vote string or a bill without rule entry; name, state and party
\* contribute nothing.
C3_TotalOverBillColumns ==
    IsScored => \A row \in scored.rows : row.total_score = SumOver(row, DOMAIN row.cells)

\* The 1-based positions of the group of total t in descending order.
GroupPositions(t) ==
    LET above == Cardinality({x \in scored.rows : x.total_score > t})
        equal == Cardinality({x \in scored.rows : x.total_score = t})
    IN (above + 1)..(above + equal)

RECURSIVE SumSet(_)
SumSet(S) == IF S = {} THEN 0 ELSE LET k == CHOOSE k \in S : TRUE IN k + SumSet(S \ {k})

MaxBatch == 2

\* The exceptions fetch_bill_votes raises: the two RuntimeErrors of lines 46
\* and 63, the AttributeError of line 87 and the NameError of line 117.
FetchErrors == {ErrNoActions, ErrNoRollCall, "AttributeError", "NameError"}

\* An sqlite3 error raised by cur.execute.
WriteError == "sqlite3.Error"

\* The row lists fetch_bill_votes returns for bill b: the records of one
\* House roll call.
BatchRows(b) ==
    UNION {UNION {[1..n -> {HouseRecord(b, "House", r, e) : e \in StoreEntries}]
                      : n \in 0..MaxBatch}
              : r \in RollNumbers}

\* The durable table when every statement is committed as it is executed.
AutoCommitted(tbl, view) == view

\* The durable table after an INSERT that is not committed yet: sqlite3 opens
\* a transaction before the first INSERT of a bill, and the rows the
\* connection has written since are durable only from conn.commit() on.
Uncommitted(tbl, view) == tbl

\* Line 149: fetch_bill_votes returns the rows of the bill.
FetchReturns ==
    /\ pc = "fetch"
    /\ \E rs \in BatchRows(bills[next_bill]) :
          /\ bill_rows' = rs
          /\ fetched' = Append(fetched, [bill |-> bills[next_bill], raised |-> NoError,
                                         rows |-> rs])
    /\ pc' = "write"
    /\ UNCHANGED <<acts, chamber, latest, err, houseVars, storeVars, scoreVars,
                   bills, next_bill, conn, pageVars, senate_doc>>

\* Line 149: fetch_bill_votes raises; nothing catches the exception.
FetchRaises ==
    /\ pc = "fetch"
    /\ \E e \in FetchErrors :
          /\ err' = e
          /\ fetched' = Append(fetched, [bill |-> bills[next_bill], raised |-> e,
                                         rows |-> <<>>])
    /\ pc' = "failed"
    /\ UNCHANGED <<acts, chamber, latest, houseVars, storeVars, scoreVars,
                   bills, next_bill, bill_rows, conn, pageVars, senate_doc>>

\* Lines 150-156: one INSERT OR REPLACE of the loop over the rows.
ExecuteInsert ==
    /\ pc = "write"
    /\ bill_rows # <<>>
    /\ conn' = InsertOrReplace(conn, Head(bill_rows))
    /\ store' = Uncommitted(store, conn')
    /\ bill_rows' = Tail(bill_rows)
    /\ UNCHANGED <<locVars, houseVars, request, matrix, scoreVars,
                   bills, next_bill, fetched, pageVars, senate_doc>>

\* Lines 150-156: cur.execute raises; the connection is abandoned with its
\* transaction open, which is rolled back when the connection is closed.
ExecuteRaises ==
    /\ pc = "write"
    /\ bill_rows # <<>>
    /\ err' = WriteError
    /\ pc' = "failed"
    /\ UNCHANGED <<acts, chamber, latest, houseVars, storeVars, scoreVars,
                   batchVars, pageVars, senate_doc>>

\* Line 157 and the step of the loop of line 148 (line 158 after the last bill).
Commit ==
    /\ pc = "write"
    /\ bill_rows = <<>>
    /\ store' = conn
    /\ next_bill' = next_bill + 1
    /\ pc' = IF next_bill = Len(bills) THEN "done" ELSE "fetch"
    /\ UNCHANGED <<acts, chamber, latest, err, houseVars, request, matrix, scoreVars,
                   bills, bill_rows, conn, fetched, pageVars, senate_doc>>

InitBatch ==
    /\ acts = <<>>
    /\ chamber = "both"
    /\ pc = "fetch"
    /\ latest = <<>>
    /\ err = NoError
    /\ HouseIdle
    /\ StoreIdle
    /\ scoring_rules = <<>>
    /\ default_score = 0
    /\ scored = NoMatrix
    /\ bills \in BillLists
    /\ next_bill = 1
    /\ bill_rows = <<>>
    /\ conn = <<>>
    /\ fetched = <<>>
    /\ PageIdle
    /\ senate_doc = <<>>

NextBatch ==
    \/ FetchReturns
    \/ FetchRaises
    \/ ExecuteInsert
    \/ ExecuteRaises
    \/ Commit

SpecBatch == InitBatch /\ [][NextBatch]_vars

(***************************************************************************)
(* Claims about the batch loop.                                            *)
(***************************************************************************)
\* The table after writing the rows rs in order.
RECURSIVE WriteAll(_, _)
WriteAll(tbl, rs) ==
    IF rs = <<>> THEN tbl ELSE WriteAll(InsertOrReplace(tbl, Head(rs)), Tail(rs))

\* The table holding the complete batches of the first n calls.
RECURSIVE Applied(_, _)
Applied(f, n) == IF n = 0 THEN <<>> ELSE WriteAll(Applied(f, n - 1), f[n].rows)

\* C12: the bills are fetched one at a time in list order; the durable store
\* always holds the complete batches of the bills before the current one and
\* no row of the current batch; once a fetch or a write of bill k has failed,
\* the run has ended with that error, bill k is the last one fetched and the
\* store holds the complete batches of the bills before k only.
C12_BatchAtomic ==
    pc \in {"fetch", "write", "done", "failed"} =>
        /\ \A i \in 1..Len(fetched) : fetched[i].bill = bills[i]
        /\ \A i \in 1..(Len(fetched) - 1) : fetched[i].raised = NoError
        /\ store = Applied(fetched, next_bill - 1)
        /\ pc = "failed" =>
              /\ err # NoError
              /\ Len(fetched) = next_bill
              /\ next_bill <= Len(bills)
        /\ pc = "done" =>
              /\ err = NoError
              /\ Len(fetched) = Len(bills)
              /\ next_bill = Len(bills) + 1

\* C12 witness: the second bill failed in one of its writes after a row of
\* it had been written, and the store holds the batch of the first bill only.
C12_Witness ==
    /\ pc = "failed"
    /\ err = WriteError
    /\ next_bill = 2
    /\ store # <<>>
    /\ Len(conn) > Len(store)
    /\ store = Applied(fetched, 1)

(***************************************************************************)
(* 8. fetch_bill_votes: the paging loop (get_votes_both.py 34-46)          *)
(***************************************************************************)
\* The page size of line 34.
lim == 250

\* The longest action history of the model.
MaxHistory == 501

\* Action i of a history: every hundredth action carries a recorded-vote
\* descriptor, for the House and the Senate in turn, with roll number i.
ActionAt(i) ==
    IF i % 100 = 0
        THEN <<[chamber |-> IF (i \div 100) % 2 = 1 THEN "House" ELSE "Senate",
                rollNumber |-> i]>>
        ELSE <<>>

HistoryOf(n) == [i \in 1..n |-> ActionAt(i)]

\* The page the API returns for (limit, offset): the actions of the history
\* after the first o, l of them at most, in order.
Page(h, o, l) == SubSeq(h, o + 1, IF o + l < Len(h) THEN o + l ELSE Len(h))

\* The loop ends at the first page that is empty.
EmptyPage(page) == Len(page) = 0

\* Line 42: the loop ends at the first page shorter than the page size.
LastPage(page) == Len(page) < lim

\* Lines 35-44: one round of the loop.
RequestPage ==
    /\ pc = "paging"
    /\ LET page == Page(history, off, lim)
       IN /\ requests' = Append(requests, off)
          /\ acts' = acts \o page
          /\ IF LastPage(page)
                THEN /\ pc' = "actions"
                     /\ off' = off
                ELSE /\ pc' = "paging"
                     /\ off' = off + lim
    /\ UNCHANGED <<chamber, latest, err, houseVars, storeVars, scoreVars,
                   batchVars, history, senate_doc>>

InitPage ==
    /\ acts = <<>>
    /\ chamber = "both"
    /\ pc = "paging"
    /\ latest = <<>>
    /\ err = NoError
    /\ HouseIdle
    /\ StoreIdle
    /\ scoring_rules = <<>>
    /\ default_score = 0
    /\ scored = NoMatrix
    /\ BatchIdle
    /\ history \in {HistoryOf(n) : n \in 0..MaxHistory}
    /\ off = 0
    /\ requests = <<>>
    /\ senate_doc = <<>>

NextPage == RequestPage

SpecPage == InitPage /\ [][NextPage]_vars

\* C13: the pages are requested at offsets 0, L, 2L, ... with L = 250; while
\* the loop runs, the accumulated list is the history up to the offset; once
\* it has ended, which is where the selection starts, floor(N/L)+1 pages
\* have been requested and the accumulated list is the whole history in its
\* order.
C13_PagingLoop ==
    /\ \A i \in 1..Len(requests) : requests[i] = (i - 1) * 250
    /\ pc = "paging" =>
          /\ off = Len(requests) * 250
          /\ off <= Len(history)
          /\ acts = SubSeq(history, 1, off)
          /\ latest = <<>>
    /\ pc = "actions" =>
          /\ Len(requests) = (Len(history) \div 250) + 1
          /\ acts = history
          /\ latest = <<>>

\* C13 witness: a history of 2L actions, read with three requests, the last
\* of them for an empty page, and the loop has ended.
C13_Witness ==
    /\ pc = "actions"
    /\ Len(history) = 500
    /\ requests = <<0, 250, 500>>
    /\ acts = history

(***************************************************************************)
(* 9. fetch_bill_votes: the loop over the selected actions with both       *)
(*    parsing branches (get_votes_both.py 66-126)                          *)
(***************************************************************************)
\* A <member> element of the Senate document: the member id found by lines
\* 97-101 (None when no id attribute is present) and its vote_cast.
Member == [member_id : {"S000148", None}, vote_cast : {"Yea", "Nay"}]

SenateDocs == UNION {[1..n -> Member] : n \in 0..MaxEntries}

\* The House documents of this loop: entries with a name-id, a legislator
\* text and a vote value.
BothHouseDocs ==
    UNION {[1..n -> {e \in StoreEntries : e.legislator.name_id # None}] : n \in 0..MaxEntries}

\* The action histories in which each chamber has a roll call.
BothActionLists ==
    {as \in ActionLists :
        /\ \E i \in 1..Len(as) : \E j \in 1..Len(as[i]) : as[i][j].chamber = "House"
        /\ \E i \in 1..Len(as) : \E j \in 1..Len(as[i]) : as[i][j].chamber = "Senate"}

\* Lines 94-124 from member i on.  A member without id is skipped; for the
\* first member with an id the dict of lines 115-124 is built, and line 117
\* reads the name roll_number, which is defined nowhere in the function or
\* the module (the variable of line 69 is roll_num): NameError.
RECURSIVE SenateLoop(_, _, _)
SenateLoop(d, i, out) ==
    IF i > Len(d) THEN [votes |-> out, raised |-> NoError]
    ELSE IF d[i].member_id = None THEN SenateLoop(d, i + 1, out)
    ELSE [votes |-> out, raised |-> "NameError"]

\* Lines 67-124 from the selected action i on: chamber tag and roll number
\* are those of the action's first descriptor (lines 68-69), and the tag
\* chooses the branch (line 73).
RECURSIVE ParseLoop(_, _, _, _, _, _, _)
ParseLoop(b, as, lt, hdoc, sdoc, i, out) ==
    IF i > Len(lt) THEN [votes |-> out, raised |-> NoError]
    ELSE LET rc == as[lt[i].act]
             chamber_tag == rc[1].chamber
             roll_num == rc[1].rollNumber
             res == IF chamber_tag = "House"
                       THEN HouseLoop(b, chamber_tag, roll_num, hdoc, 1, out)
                       ELSE SenateLoop(sdoc, 1, out)
         IN IF res.raised # NoError THEN res
            ELSE ParseLoop(b, as, lt, hdoc, sdoc, i + 1, res.votes)

\* Lines 66-126.
ParseRollCalls ==
    /\ pc = "located"
    /\ LET res == ParseLoop(bill, acts, latest, doc, senate_doc, 1, <<>>)
       IN /\ votes' = res.votes
          /\ err' = res.raised
          /\ pc' = IF res.raised = NoError THEN "returned" ELSE "failed"
    /\ UNCHANGED <<acts, chamber, latest, bill, doc, storeVars, scoreVars,
                   batchVars, pageVars, senate_doc>>

InitBoth ==
    /\ acts \in BothActionLists
    /\ chamber = "both"
    /\ pc = "actions"
    /\ latest = <<>>
    /\ err = NoError
    /\ bill \in Bills
    /\ doc \in BothHouseDocs
    /\ votes = <<>>
    /\ StoreIdle
    /\ scoring_rules = <<>>
    /\ default_score = 0
    /\ scored = NoMatrix
    /\ BatchIdle
    /\ PageIdle
    /\ senate_doc \in SenateDocs

NextBoth ==
    \/ Locate
    \/ ParseRollCalls

SpecBoth == InitBoth /\ [][NextBoth]_vars

\* The roll numbers action i reports for chamber ch.
ActionRolls(as, i, ch) ==
    {as[i][j].rollNumber : j \in {n \in 1..Len(as[i]) : as[i][n].chamber = ch}}

\* The members of the Senate document that have an id.
Identified(d) == SelectSeq(d, LAMBDA mem : mem.member_id # None)

\* C14: with selector "both" and a roll call in each chamber the function
\* returns normally; the records are those of the House document (role
\* "Rep", chamber "House", a House roll number of the action selected for the
\* House) followed by those of the Senate document (role "Sen", chamber
\* "Senate", a Senate roll number of the action selected for the Senate), one
\* per entry or member in document order.
C14_BothChambers ==
    pc \in {"returned", "failed"} =>
        /\ pc = "returned"
        /\ err = NoError
        /\ Len(latest) = 2
        /\ Len(votes) = Len(doc) + Len(Identified(senate_doc))
        /\ \A k \in 1..Len(votes) :
              IF k <= Len(doc)
                 THEN /\ votes[k].role = "Rep"
                      /\ votes[k].chamber = "House"
                      /\ votes[k].member_id = doc[k].legislator.name_id
                      /\ votes[k].roll_number \in ActionRolls(acts, latest[1].act, "House")
                 ELSE /\ votes[k].role = "Sen"
                      /\ votes[k].chamber = "Senate"
                      /\ votes[k].member_id = Identified(senate_doc)[k - Len(doc)].member_id
                      /\ votes[k].roll_number \in ActionRolls(acts, latest[2].act, "Senate")

====
